---------------------------- MODULE Spec2Model ----------------------------
(***************************************************************************)
(* Air-traffic-controller simulator (src/air.cpp): the Scheduler's ready   *)
(* queue, the MemoryManager's airspace array and the simulate loop.        *)
(*                                                                         *)
(* Three specifications share the variables:                               *)
(*   Spec       one run of simulate(incoming) on a bounded arrival list    *)
(*   SpecSched  a driver of Scheduler::addPlane / getNextPlane             *)
(*   SpecMM     a driver of MemoryManager::allocate / deallocate / isSafe  *)
(***************************************************************************)
EXTENDS Integers, Sequences, FiniteSets, TLC

VARIABLES
    incoming,    \* simulate: vector<Plane> incoming (not yet admitted)
    readyQueue,  \* Scheduler::readyQueue
    memory,      \* MemoryManager::memory, a function 0..size-1 -> {0,1}
    time,        \* simulate: int time
    gantt,       \* simulate: vector<pair<int,int>> gantt, <<id, landingTime>>
    current,     \* simulate: Plane current / the plane getNextPlane returned
    memIndex,    \* simulate: int memIndex / the value allocate returned
    pc,          \* position in simulate, or the driver's name
    slept,       \* milliseconds of wall clock the last step slept
    chart,       \* the rows the Gantt chart printed: [id, start, end]
    input,       \* history: the arrival sequence simulate was called with
    held,        \* history: allocations made and not yet released
    served,      \* history: <<plane, time at allocation>> per allocation
    released,    \* history: ids of the planes whose allocation was released
    op,          \* history: the last call made, with its arguments
    prevMem,     \* history: memory before the last call
    prevQueue,   \* history: readyQueue before the last call
    oob          \* history: the last call accessed memory out of range

vars == <<incoming, readyQueue, memory, time, gantt, current, memIndex, pc,
          slept, chart, input, held, served, released, op, prevMem,
          prevQueue, oob>>

---------------------------------------------------------------------------
(* Bounds of the model                                                     *)

MaxPlanes == 2      \* longest arrival sequence given to simulate
MaxTime == 6        \* simulated time at which a run that still defers is cut
MaxQueue == 3       \* longest ready queue of the Scheduler driver
MaxFuel == 2        \* fuel levels 1..MaxFuel in the Scheduler driver
MaxLanding == 2     \* landing times 1..MaxLanding in the Scheduler driver
MaxCap == 5         \* largest pool the MemoryManager driver constructs

(* Program constants                                                       *)

Capacity == 20      \* MemoryManager memory(20) in simulate
WeatherPause == 6   \* sleep_for(chrono::seconds(6)), in seconds
LandingPause == 200 \* sleep_for(chrono::milliseconds(200)), in milliseconds
RandRange == 10     \* rand() % 10
WeatherOdds == 2    \* rand() % 10 < 2

---------------------------------------------------------------------------
(* struct Plane                                                            *)

Plane(i, at, fuel, s, lt, e) ==
    [id |-> i, arrivalTime |-> at, fuelLevel |-> fuel, size |-> s,
     landingTime |-> lt, emergency |-> e]

\* Plane(-1, 0, 0, 0, 0): what getNextPlane returns on an empty queue
NoPlane == Plane(-1, 0, 0, 0, 0, FALSE)

---------------------------------------------------------------------------
(* class Scheduler                                                         *)

\* bool as int: a.emergency > b.emergency
BoolInt(b) == IF b THEN 1 ELSE 0

compareLandingFirst(a, b) ==
    IF a.emergency # b.emergency THEN BoolInt(a.emergency) > BoolInt(b.emergency)
    ELSE IF a.landingTime # b.landingTime THEN a.landingTime < b.landingTime
    ELSE a.fuelLevel < b.fuelLevel

compare(a, b) ==
    IF a.emergency # b.emergency THEN BoolInt(a.emergency) > BoolInt(b.emergency)
    ELSE IF a.fuelLevel # b.fuelLevel THEN a.fuelLevel < b.fuelLevel
    ELSE a.landingTime < b.landingTime

addPlane(q, p) == Append(q, p)

\* The permutations of 1..n, as functions
Perms(n) == {f \in [1..n -> 1..n] : \A i, j \in 1..n : i # j => f[i] # f[j]}

\* std::sort(begin, end, compare): some permutation of q in which no element
\* is placed after one it must precede.  std::sort is not stable: the order
\* of planes that compare equivalent is any.
sortOutcomes(q) ==
    {[i \in 1..Len(q) |-> q[f[i]]] : f \in
        {g \in Perms(Len(q)) :
            \A i, j \in 1..Len(q) : i < j => ~compare(q[g[j]], q[g[i]])}}

\* getNextPlane: the pairs <<returned plane, queue afterwards>>
getNextPlane(q) ==
    IF q = <<>> THEN {<<NoPlane, q>>}
    ELSE {<<Head(s), Tail(s)>> : s \in sortOutcomes(q)}

---------------------------------------------------------------------------
(* class MemoryManager                                                     *)

\* MemoryManager(int size) : memory(size, 0)
newMemory(size) == [i \in 0..(size - 1) |-> 0]

\* memory.size()
memSize(m) == Cardinality(DOMAIN m)

\* The loop condition i <= memory.size() - size of allocate.  The right side
\* is computed in size_t (64 bits, unsigned) and i is converted to it: for
\* size > memory.size() the difference wraps around to
\* 2^64 - (size - memory.size()), which no index i reached by the scan exceeds.
scanContinuesStrict(m, size, i) ==
    IF size > memSize(m) THEN TRUE ELSE i < memSize(m) - size

scanContinues(m, size, i) ==
    IF size > memSize(m) THEN TRUE ELSE i <= memSize(m) - size

\* while (j < size && memory[i + j] == 0) j++ : the value of j at which the
\* loop stops, or at which it reads memory[i + j] outside the array
runLength(m, i, size) ==
    CHOOSE j \in 0..size :
        /\ \A k \in 0..(j - 1) : (i + k) \in DOMAIN m /\ m[i + k] = 0
        /\ (j = size \/ (i + j) \notin DOMAIN m \/ m[i + j] # 0)

takesRunAlways(j, size, bestSize) == j = size

\* if (j == size && size < bestSize)
takesRun(j, size, bestSize) == j = size /\ size < bestSize

\* The scan of allocate from offset i on.  It stops, with oob set, at the
\* first read of memory[i + j] outside the array.
RECURSIVE scan(_, _, _, _, _)
scan(m, size, i, bestStart, bestSize) ==
    IF ~scanContinues(m, size, i)
    THEN [bestStart |-> bestStart, oob |-> FALSE]
    ELSE LET j == runLength(m, i, size)
         IN  IF j < size /\ (i + j) \notin DOMAIN m
             THEN [bestStart |-> bestStart, oob |-> TRUE]
             ELSE IF takesRun(j, size, bestSize)
                  THEN scan(m, size, i + 1, i, size)
                  ELSE scan(m, size, i + 1, bestStart, bestSize)

\* for (int i = start; i < start + size; ++i) memory[i] = v
setRun(m, start, size, v) ==
    [i \in DOMAIN m |-> IF start <= i /\ i < start + size THEN v ELSE m[i]]

allocateMarksOneLess(m, size) ==
    LET r == scan(m, size, 0, -1, memSize(m) + 1)
    IN  [start |-> r.bestStart,
         mem |-> IF r.bestStart # -1 /\ ~r.oob
                 THEN setRun(m, r.bestStart, size - 1, 1) ELSE m,
         oob |-> r.oob]

\* allocate(size): the value returned, the array afterwards, and whether the
\* scan read outside the array (undefined behaviour: the caller of this
\* operator chooses among the outcomes)
allocate(m, size) ==
    LET r == scan(m, size, 0, -1, memSize(m) + 1)
    IN  [start |-> r.bestStart,
         mem |-> IF r.bestStart # -1 /\ ~r.oob
                 THEN setRun(m, r.bestStart, size, 1) ELSE m,
         oob |-> r.oob]

deallocateOneLess(m, start, size) == setRun(m, start, size - 1, 0)

deallocateOneMore(m, start, size) == setRun(m, start, size + 1, 0)

deallocate(m, start, size) == setRun(m, start, size, 0)

\* for (int m : memory) if (m == 0) freeCount++ : the count after the units
\* from i on have been visited
RECURSIVE freeCount(_, _, _)
freeCount(m, i, count) ==
    IF i \notin DOMAIN m THEN count
    ELSE freeCount(m, i + 1, IF m[i] = 0 THEN count + 1 ELSE count)

isSafeStrict(m, reqSize) == freeCount(m, 0, 0) > reqSize

isSafe(m, reqSize) == freeCount(m, 0, 0) >= reqSize

---------------------------------------------------------------------------
(* Values of the variables a specification does not use                    *)

NoOp == [name |-> "none", size |-> 0, start |-> 0, result |-> 0,
         roundTrip |-> 0]

IdleSimulate ==
    /\ incoming = <<>> /\ time = 0 /\ gantt = <<>> /\ slept = 0
    /\ chart = <<>> /\ input = <<>> /\ served = <<>> /\ released = <<>>

simulateVars == <<incoming, time, gantt, slept, chart, input, served,
                  released>>

---------------------------------------------------------------------------
(* SpecSched: a caller of the Scheduler that adds up to MaxQueue planes    *)
(* and then takes planes until the queue is empty, and once more.          *)

\* The planes the driver adds: every combination of the three keys
SchedPlanes(i) ==
    {Plane(i, 0, fuel, 1, lt, e) :
        fuel \in 1..MaxFuel, lt \in 1..MaxLanding, e \in BOOLEAN}

InitSched ==
    /\ IdleSimulate
    /\ readyQueue = <<>> /\ current = NoPlane /\ pc = "sched"
    /\ op = NoOp /\ prevQueue = <<>>
    /\ memory = newMemory(0) /\ prevMem = newMemory(0) /\ memIndex = -1
    /\ held = {} /\ oob = FALSE

SchedAddPlane ==
    /\ pc = "sched" /\ op.name # "getNextPlane"
    /\ Len(readyQueue) < MaxQueue
    /\ \E p \in SchedPlanes(Len(readyQueue) + 1) :
          readyQueue' = addPlane(readyQueue, p)
    /\ op' = [NoOp EXCEPT !.name = "addPlane"]
    /\ prevQueue' = readyQueue
    /\ UNCHANGED <<current, pc, memory, prevMem, memIndex, held, oob>>
    /\ UNCHANGED simulateVars

SchedGetNextPlane ==
    /\ pc = "sched"
    /\ \E r \in getNextPlane(readyQueue) :
          current' = r[1] /\ readyQueue' = r[2]
    /\ op' = [NoOp EXCEPT !.name = "getNextPlane"]
    /\ prevQueue' = readyQueue
    /\ UNCHANGED <<pc, memory, prevMem, memIndex, held, oob>>
    /\ UNCHANGED simulateVars

NextSched == SchedAddPlane \/ SchedGetNextPlane

SpecSched == InitSched /\ [][NextSched]_vars

---------------------------------------------------------------------------
(* SpecMM: a caller of the MemoryManager that constructs a pool of up to   *)
(* MaxCap units and then calls allocate, isSafe, and deallocate with the   *)
(* (start, size) of an allocation it holds.                                *)

InitMM ==
    /\ IdleSimulate
    /\ \E n \in 1..MaxCap : memory = newMemory(n) /\ prevMem = newMemory(n)
    /\ pc = "mm" /\ op = NoOp /\ memIndex = -1 /\ held = {} /\ oob = FALSE
    /\ readyQueue = <<>> /\ prevQueue = <<>> /\ current = NoPlane

\* allocate(size), for every size from 1 to one more than the pool holds.
\* A scan that reads outside the array is undefined behaviour: the process
\* is killed by the read, or the read yields some value and the scan goes
\* on to further reads until it is killed or returns bestStart.
MMAllocate ==
    /\ pc = "mm"
    /\ \E size \in 1..(memSize(memory) + 1) :
         LET r == allocate(memory, size)
         IN  /\ op' = [NoOp EXCEPT !.name = "allocate", !.size = size]
             /\ memory' = r.mem
             /\ memIndex' = r.start
             /\ oob' = r.oob
             /\ held' = IF r.start # -1
                        THEN held \cup {[start |-> r.start, size |-> size]}
                        ELSE held
             /\ IF r.oob THEN pc' \in {"mm", "crashed"} ELSE pc' = pc
    /\ prevMem' = memory
    /\ UNCHANGED <<readyQueue, prevQueue, current>>
    /\ UNCHANGED simulateVars

MMDeallocate ==
    /\ pc = "mm"
    /\ \E h \in held :
         /\ memory' = deallocate(memory, h.start, h.size)
         /\ held' = held \ {h}
         /\ op' = [NoOp EXCEPT !.name = "deallocate", !.start = h.start,
                                !.size = h.size,
                                !.roundTrip = BoolInt(/\ op.name = "allocate"
                                                      /\ memIndex = h.start
                                                      /\ op.size = h.size)]
    /\ prevMem' = memory
    /\ oob' = FALSE
    /\ UNCHANGED <<pc, memIndex, readyQueue, prevQueue, current>>
    /\ UNCHANGED simulateVars

MMIsSafe ==
    /\ pc = "mm"
    /\ \E reqSize \in 0..(memSize(memory) + 1) :
         op' = [NoOp EXCEPT !.name = "isSafe", !.size = reqSize,
                            !.result = BoolInt(isSafe(memory, reqSize))]
    /\ prevMem' = memory
    /\ oob' = FALSE
    /\ UNCHANGED <<memory, pc, memIndex, held, readyQueue, prevQueue, current>>
    /\ UNCHANGED simulateVars

NextMM == MMAllocate \/ MMDeallocate \/ MMIsSafe

SpecMM == InitMM /\ [][NextMM]_vars

---------------------------------------------------------------------------
(* Spec: one run of simulate(incoming, caseName)                           *)

\* The planes of the arrival sequences: fuel, size, landingTime, emergency.
\* Sizes are a usual one, the whole airspace, and one unit more than it.
Profiles ==
    {<<2, 4, 2, FALSE>>, <<1, Capacity, 1, FALSE>>,
     <<2, 3, 1, TRUE>>, <<1, Capacity + 1, 2, FALSE>>}

ArrivalTimes == {0, 1, 2}

\* The ids: the position in the sequence, or -1 for at most one plane
PlanesAt(i) ==
    {Plane(id, at, pr[1], pr[2], pr[3], pr[4]) :
        id \in {i, -1}, at \in ArrivalTimes, pr \in Profiles}

ArrivalSequences ==
    UNION {{q \in [1..n -> UNION {PlanesAt(i) : i \in 1..n}] :
               /\ \A i \in 1..n : q[i] \in PlanesAt(i)
               /\ \A i, j \in 1..n : i # j => q[i].id # q[j].id} :
           n \in 0..MaxPlanes}

\* The admission loop: every plane of inc with arrivalTime <= t is moved, in
\* order, to the back of the ready queue
ArrivedBefore(p, t) == p.arrivalTime < t

Arrived(p, t) == p.arrivalTime <= t

admit(inc, q, t) ==
    LET due(p) == Arrived(p, t)
        later(p) == ~Arrived(p, t)
    IN  [readyQueue |-> q \o SelectSeq(inc, due),
         incoming |-> SelectSeq(inc, later)]

\* The Gantt chart loop over gantt from entry i on, t being the running sum
RECURSIVE ganttRows(_, _, _)
ganttRows(g, i, t) ==
    IF i > Len(g) THEN <<>>
    ELSE <<[id |-> g[i][1], start |-> t, end |-> t + g[i][2]]>>
            \o ganttRows(g, i + 1, t + g[i][2])

Init ==
    /\ input \in ArrivalSequences
    /\ incoming = input
    /\ readyQueue = <<>> /\ memory = newMemory(Capacity)
    /\ time = 0 /\ gantt = <<>>
    /\ current = NoPlane /\ memIndex = -1
    /\ pc = "loop"
    /\ slept = 0 /\ chart = <<>>
    /\ held = {} /\ served = <<>> /\ released = <<>>
    /\ op = NoOp /\ prevMem = newMemory(0) /\ prevQueue = <<>> /\ oob = FALSE

driverVars == <<op, prevMem, prevQueue, oob>>

\* while (!incoming.empty() || !scheduler.readyQueue.empty())
LoopTest ==
    /\ pc = "loop"
    /\ pc' = IF incoming # <<>> \/ readyQueue # <<>> THEN "weather" ELSE "chart"
    /\ slept' = 0
    /\ UNCHANGED <<incoming, readyQueue, memory, time, gantt, current,
                   memIndex, chart, input, held, served, released>>
    /\ UNCHANGED driverVars

\* simulateWeatherDelay()
SimulateWeatherDelayPostpones ==
    /\ pc = "weather"
    /\ \E r \in 0..(RandRange - 1) :
         /\ slept' = IF r < WeatherOdds THEN WeatherPause * 1000 ELSE 0
         /\ time' = IF r < WeatherOdds THEN time + WeatherPause ELSE time
    /\ pc' = "admit"
    /\ UNCHANGED <<incoming, readyQueue, memory, gantt, current,
                   memIndex, chart, input, held, served, released>>
    /\ UNCHANGED driverVars

SimulateWeatherDelay ==
    /\ pc = "weather"
    /\ \E r \in 0..(RandRange - 1) :
         slept' = IF r < WeatherOdds THEN WeatherPause * 1000 ELSE 0
    /\ pc' = "admit"
    /\ UNCHANGED <<incoming, readyQueue, memory, time, gantt, current,
                   memIndex, chart, input, held, served, released>>
    /\ UNCHANGED driverVars

\* Admit arriving planes
AdmitArrivals ==
    /\ pc = "admit"
    /\ LET a == admit(incoming, readyQueue, time)
       IN  incoming' = a.incoming /\ readyQueue' = a.readyQueue
    /\ pc' = "next"
    /\ slept' = 0
    /\ UNCHANGED <<memory, time, gantt, current, memIndex, chart, input,
                   held, served, released>>
    /\ UNCHANGED driverVars

GetNextNoTick ==
    /\ pc = "next"
    /\ \E r \in getNextPlane(readyQueue) :
         /\ current' = r[1]
         /\ readyQueue' = r[2]
         /\ pc' = IF r[1].id = -1 THEN "loop" ELSE "safe"
    /\ slept' = 0
    /\ UNCHANGED <<incoming, memory, time, gantt, memIndex, chart, input,
                   held, served, released>>
    /\ UNCHANGED driverVars

\* Plane current = scheduler.getNextPlane(); if (current.id == -1) ...
GetNext ==
    /\ pc = "next"
    /\ \E r \in getNextPlane(readyQueue) :
         /\ current' = r[1]
         /\ readyQueue' = r[2]
         /\ IF r[1].id = -1
            THEN time' = time + 1 /\ pc' = "loop"
            ELSE time' = time /\ pc' = "safe"
    /\ slept' = 0
    /\ UNCHANGED <<incoming, memory, gantt, memIndex, chart, input, held,
                   served, released>>
    /\ UNCHANGED driverVars

SafetyCheckNoTick ==
    /\ pc = "safe"
    /\ IF ~isSafe(memory, current.size)
       THEN /\ time < MaxTime
            /\ readyQueue' = addPlane(readyQueue, current)
            /\ pc' = "loop"
       ELSE /\ pc' = "alloc"
            /\ UNCHANGED readyQueue
    /\ slept' = 0
    /\ UNCHANGED <<incoming, memory, time, gantt, current, memIndex, chart,
                   input, held, served, released>>
    /\ UNCHANGED driverVars

\* if (!memory.isSafe(current.size)) { addPlane(current); time++; continue; }
SafetyCheck ==
    /\ pc = "safe"
    /\ IF ~isSafe(memory, current.size)
       THEN /\ time < MaxTime
            /\ readyQueue' = addPlane(readyQueue, current)
            /\ time' = time + 1
            /\ pc' = "loop"
       ELSE /\ pc' = "alloc"
            /\ UNCHANGED <<readyQueue, time>>
    /\ slept' = 0
    /\ UNCHANGED <<incoming, memory, gantt, current, memIndex, chart, input,
                   held, served, released>>
    /\ UNCHANGED driverVars

\* int memIndex = memory.allocate(current.size); if (memIndex == -1) ...
Allocate ==
    /\ pc = "alloc"
    /\ LET r == allocate(memory, current.size)
       IN  /\ memIndex' = r.start
           /\ memory' = r.mem
           /\ IF r.oob
              THEN /\ pc' \in {"crashed", "loop"}
                   /\ UNCHANGED <<readyQueue, time, held, served>>
              ELSE IF r.start = -1
              THEN /\ time < MaxTime
                   /\ readyQueue' = addPlane(readyQueue, current)
                   /\ time' = time + 1
                   /\ pc' = "loop"
                   /\ UNCHANGED <<held, served>>
              ELSE /\ pc' = "land"
                   /\ held' = held \cup
                         {[start |-> r.start, size |-> current.size]}
                   /\ served' = Append(served,
                                       [plane |-> current, start |-> time])
                   /\ UNCHANGED <<readyQueue, time>>
    /\ slept' = 0
    /\ UNCHANGED <<incoming, gantt, current, chart, input, released>>
    /\ UNCHANGED driverVars

\* gantt.push_back({id, landingTime}); sleep; time += current.landingTime
Land ==
    /\ pc = "land"
    /\ gantt' = Append(gantt, <<current.id, current.landingTime>>)
    /\ slept' = LandingPause
    /\ time' = time + current.landingTime
    /\ pc' = "release"
    /\ UNCHANGED <<incoming, readyQueue, memory, current, memIndex, chart,
                   input, held, served, released>>
    /\ UNCHANGED driverVars

\* memory.deallocate(memIndex, current.size); memory.display()
Release ==
    /\ pc = "release"
    /\ memory' = deallocate(memory, memIndex, current.size)
    /\ held' = held \ {[start |-> memIndex, size |-> current.size]}
    /\ released' = Append(released, current.id)
    /\ pc' = "loop"
    /\ slept' = 0
    /\ UNCHANGED <<incoming, readyQueue, time, gantt, current, memIndex,
                   chart, input, served>>
    /\ UNCHANGED driverVars

\* The Gantt chart printed after the loop
GanttChart ==
    /\ pc = "chart"
    /\ chart' = ganttRows(gantt, 1, 0)
    /\ pc' = "done"
    /\ slept' = 0
    /\ UNCHANGED <<incoming, readyQueue, memory, time, gantt, current,
                   memIndex, input, held, served, released>>
    /\ UNCHANGED driverVars

Next ==
    \/ LoopTest \/ SimulateWeatherDelay \/ AdmitArrivals \/ GetNext
    \/ SafetyCheck \/ Allocate \/ Land \/ Release \/ GanttChart

Spec == Init /\ [][Next]_vars

---------------------------------------------------------------------------
(* Claims about the Scheduler, under SpecSched                             *)

Range(q) == {q[i] : i \in 1..Len(q)}

Count(q, p) == Cardinality({i \in 1..Len(q) : q[i] = p})

\* p is at least as urgent as q under the three keys: emergency first, then
\* lower fuelLevel, then shorter landingTime
NotAfter(p, q) ==
    \/ p.emergency /\ ~q.emergency
    \/ /\ p.emergency = q.emergency
       /\ \/ p.fuelLevel < q.fuelLevel
          \/ p.fuelLevel = q.fuelLevel /\ p.landingTime <= q.landingTime

\* C1: getNextPlane on a non-empty ready queue removes exactly one plane and
\* returns it; the returned plane is minimal under the three-key order among
\* the planes held before the call, and the planes left are the planes held
\* before minus the returned one, as multisets.
C1_GetNextPlaneMinimal ==
    (op.name = "getNextPlane" /\ prevQueue # <<>>) =>
        /\ current \in Range(prevQueue)
        /\ \A q \in Range(prevQueue) : NotAfter(current, q)
        /\ Len(readyQueue) = Len(prevQueue) - 1
        /\ \A q \in Range(prevQueue) :
              Count(readyQueue, q) + (IF q = current THEN 1 ELSE 0)
                  = Count(prevQueue, q)

\* The returned plane was neither first in the queue nor the lowest on fuel:
\* an emergency plane taken from behind two planes, one of them with less fuel
C1_Witness ==
    /\ op.name = "getNextPlane" /\ Len(prevQueue) = 3
    /\ current = prevQueue[3] /\ current.emergency
    /\ ~prevQueue[1].emergency /\ prevQueue[1].fuelLevel < current.fuelLevel
    /\ prevQueue[2].emergency /\ prevQueue[2].fuelLevel = current.fuelLevel
    /\ prevQueue[2].landingTime > current.landingTime

---------------------------------------------------------------------------
(* Claims about the MemoryManager, under SpecMM                            *)

\* A run of size free units of m starts at offset s and lies in the pool
FitsAt(m, s, size) ==
    \A k \in 0..(size - 1) : (s + k) \in DOMAIN m /\ m[s + k] = 0

\* C5: allocate(size) returns -1 and leaves every unit unchanged whenever no
\* contiguous run of size free units exists, for every size >= 1 including
\* sizes above the capacity, and never accesses a unit outside the pool.
C5_AllocateFailsCleanly ==
    op.name = "allocate" =>
        /\ ~oob
        /\ pc # "crashed"
        /\ (~\E s \in DOMAIN prevMem : FitsAt(prevMem, s, op.size)) =>
              (memIndex = -1 /\ memory = prevMem)

\* C6: a successful allocate(size) returning s, followed at once by
\* deallocate(s, size), leaves the pool as it was before the allocate.
C6_RoundTrip ==
    [][(/\ pc = "mm" /\ op.name = "allocate" /\ memIndex # -1
        /\ op'.name = "deallocate"
        /\ op'.start = memIndex /\ op'.size = op.size)
       => memory' = prevMem]_vars

\* A round trip in a fragmented pool: the run allocated and released lies
\* behind an occupied unit and the pool is not empty afterwards
C6_Witness ==
    /\ op.name = "deallocate" /\ op.roundTrip = 1
    /\ op.start > 0 /\ op.size >= 2
    /\ memory[op.start - 1] = 1

\* C7: isSafe(reqSize) is true iff the number of free units is >= reqSize,
\* and the pool is unchanged.
C7_IsSafeFreeCount ==
    op.name = "isSafe" =>
        /\ (op.result = 1) <=>
              (Cardinality({i \in DOMAIN prevMem : prevMem[i] = 0}) >= op.size)
        /\ memory = prevMem

\* isSafe asked for exactly the number of free units of a fragmented pool
C7_Witness ==
    /\ op.name = "isSafe" /\ op.result = 1 /\ op.size = 2
    /\ Cardinality({i \in DOMAIN memory : memory[i] = 0}) = 2
    /\ ~\E s \in DOMAIN memory : FitsAt(memory, s, 2)

\* The maximal free run (hole) of m that contains offset s: its length
HoleLength(m, s) ==
    LET lo == CHOOSE a \in 0..s :
                  /\ \A k \in a..s : m[k] = 0
                  /\ (a = 0 \/ m[a - 1] # 0)
        hi == CHOOSE b \in s..(memSize(m) - 1) :
                  /\ \A k \in s..b : m[k] = 0
                  /\ (b = memSize(m) - 1 \/ m[b + 1] # 0)
    IN  hi - lo + 1

\* C8: allocate places the request in the smallest hole that can hold it.
C8_BestFit ==
    (op.name = "allocate" /\ memIndex # -1 /\ ~oob) =>
        \A s \in DOMAIN prevMem :
            (prevMem[s] = 0 /\ HoleLength(prevMem, s) >= op.size) =>
                HoleLength(prevMem, memIndex) <= HoleLength(prevMem, s)

---------------------------------------------------------------------------
(* Claims about simulate, under Spec                                       *)

Ids(q) == {q[i].id : i \in 1..Len(q)}

Oversized(p) == p.size > Capacity

\* C2: when every plane of the arrival sequence has a size in 1..Capacity,
\* landingTime >= 1 and arrivalTime >= 0, a run that has ended has allocated,
\* recorded and released every plane of the sequence exactly once.
C2_AllServedOnce ==
    (\A i \in 1..Len(input) :
        /\ input[i].size \in 1..Capacity
        /\ input[i].landingTime >= 1 /\ input[i].arrivalTime >= 0)
    => (pc = "done" =>
          /\ incoming = <<>> /\ readyQueue = <<>>
          /\ Len(served) = Len(input) /\ Len(gantt) = Len(input)
          /\ Len(released) = Len(input)
          /\ \A i \in 1..Len(input) :
                /\ \E k \in 1..Len(served) : served[k].plane = input[i]
                /\ \E k \in 1..Len(gantt) : gantt[k][1] = input[i].id
                /\ \E k \in 1..Len(released) : released[k] = input[i].id)

\* C3: the timeline row reported for each allocation starts at the simulated
\* time at which the plane was allocated and ends landingTime later.
C3_TimelineMatchesAllocation ==
    pc = "done" =>
        /\ Len(chart) = Len(served)
        /\ \A k \in 1..Len(chart) :
              /\ chart[k].id = served[k].plane.id
              /\ chart[k].start = served[k].start
              /\ chart[k].end = served[k].start + served[k].plane.landingTime

UnitsOf(h) == h.start..(h.start + h.size - 1)

\* C4: every unit is occupied or free, the array keeps its length, the
\* occupied units are exactly the units of the allocations made and not yet
\* released, and no two such allocations overlap.
C4_Conservation ==
    /\ DOMAIN memory = 0..(Capacity - 1)
    /\ \A i \in DOMAIN memory : memory[i] \in {0, 1}
    /\ Cardinality({i \in DOMAIN memory : memory[i] = 1})
         + Cardinality({i \in DOMAIN memory : memory[i] = 0}) = Capacity
    /\ {i \in DOMAIN memory : memory[i] = 1} = UNION {UnitsOf(h) : h \in held}
    /\ \A g, h \in held : g # h => UnitsOf(g) \cap UnitsOf(h) = {}

\* A plane of size 4 holds units 0..3 while it lands
C4_Witness ==
    /\ pc = "release" /\ held = {[start |-> 0, size |-> 4]}
    /\ memory[3] = 1 /\ memory[4] = 0

\* C9: with a plane larger than the airspace in the arrival sequence, the
\* plane is never discarded nor released, allocate is never called for it,
\* the engine does not crash and the loop does not end.
C9_OversizedDefersForever ==
    \A i \in 1..Len(input) : Oversized(input[i]) =>
        /\ pc \notin {"chart", "done", "crashed"}
        /\ \/ input[i] \in Range(incoming)
           \/ input[i] \in Range(readyQueue)
           \/ pc = "safe" /\ current = input[i]
        /\ \A k \in 1..Len(released) : released[k] # input[i].id
        /\ ~oob

\* C10: the weather delay, whatever rand() yields, changes none of time,
\* incoming, readyQueue, the airspace, the timeline; and the pause of a
\* landing adds nothing to the landingTime by which the landing advances time.
C10_WeatherChangesNothing ==
    [][/\ pc = "weather" =>
            /\ time' = time /\ incoming' = incoming
            /\ readyQueue' = readyQueue /\ memory' = memory
            /\ gantt' = gantt /\ current' = current /\ memIndex' = memIndex
       /\ (pc = "land" /\ pc' # pc) =>
            /\ time' = time + current.landingTime /\ incoming' = incoming
            /\ readyQueue' = readyQueue /\ memory' = memory]_vars

\* A weather delay struck in the middle of a run, a plane still to arrive
C10_Witness ==
    /\ pc = "admit" /\ slept = WeatherPause * 1000
    /\ time > 0 /\ gantt # <<>> /\ incoming # <<>>

\* The planes of the arrival sequence not yet released, by position
Unreleased == {i \in 1..Len(input) : input[i].id \notin Range(released)}

\* C11: simulated time never decreases, the set of planes not yet released
\* never grows, and the step that ends a loop iteration either advances time
\* by at least 1 (idle step, deferral) or is the release of a plane: no
\* iteration leaves both time and the unreleased planes as they were.
C11_MonotonicProgress ==
    [][/\ time' >= time
       /\ Unreleased' \subseteq Unreleased
       /\ (pc # "loop" /\ pc' = "loop") =>
            \/ time' >= time + 1
            \/ Unreleased' # Unreleased]_vars

\* An iteration that deferred an oversized plane after another had landed
C11_Witness ==
    /\ pc = "loop" /\ Len(released) = 1 /\ Oversized(current)
    /\ current \in Range(readyQueue) /\ time >= 3

\* C12: when a plane is extracted at time t no plane with arrivalTime <= t
\* is left in incoming and no plane with arrivalTime > t is in the ready
\* queue; no plane starts service before its arrivalTime.
C12_Admission ==
    /\ pc = "next" =>
          /\ \A p \in Range(incoming) : p.arrivalTime > time
          /\ \A p \in Range(readyQueue) : p.arrivalTime <= time
    /\ \A k \in 1..Len(served) :
          served[k].plane.arrivalTime <= served[k].start

\* An extraction at the very time a plane arrived, another still to come
C12_Witness ==
    /\ pc = "next" /\ time = 1 /\ Len(readyQueue) = 1
    /\ readyQueue[1].arrivalTime = 1
    /\ Len(incoming) = 1 /\ incoming[1].arrivalTime = 2

\* C13: the engine takes the idle step (time + 1, nothing attempted) only
\* when the ready queue is empty after admission; a plane extracted from a
\* non-empty queue goes on to the safety check, whatever its id.
C13_IdleOnlyWhenEmpty ==
    [][(pc = "next" /\ pc' # pc) =>
         /\ (readyQueue = <<>>) <=> (pc' = "loop")
         /\ readyQueue # <<>> =>
               /\ pc' = "safe" /\ current' \in Range(readyQueue)
               /\ time' = time]_vars

\* The planes of q, counted: q and r hold the same planes the same number
\* of times
SameBag(q, r) ==
    /\ Len(q) = Len(r)
    /\ \A p \in Range(q) \cup Range(r) : Count(q, p) = Count(r, p)

\* C14: the extraction takes the plane out of the queue and, when isSafe is
\* false for it, the deferral puts it back unchanged (the queue holds the
\* planes it held before the extraction), advances time by exactly 1, tries
\* no placement and leaves the airspace and the timeline as they were.
C14_SafetyDeferral ==
    [][/\ (pc = "next" /\ pc' = "safe") =>
            SameBag(readyQueue, readyQueue' \o <<current'>>)
       /\ (/\ pc = "safe" /\ pc' # pc
           /\ Cardinality({i \in DOMAIN memory : memory[i] = 0}) < current.size)
          => /\ pc' = "loop"
             /\ SameBag(readyQueue', readyQueue \o <<current>>)
             /\ time' = time + 1
             /\ memory' = memory /\ memIndex' = memIndex /\ held' = held
             /\ gantt' = gantt /\ served' = served /\ incoming' = incoming
             /\ current' = current]_vars

\* A deferral with another plane waiting in the queue
C14_Witness ==
    /\ pc = "loop" /\ Oversized(current) /\ Len(readyQueue) = 2
    /\ current \in Range(readyQueue) /\ time >= 1 /\ gantt = <<>>

---------------------------------------------------------------------------
(* Further claims about the MemoryManager, under SpecMM                    *)

FreeUnits(m) == {i \in DOMAIN m : m[i] = 0}

\* C15: the safety check ignores fragmentation.  Whenever allocate(d) fails
\* on a pool with at least d free units, no run of d free units exists, the
\* pool is unchanged and isSafe(d) is true of it; such a pool is reached by
\* successful allocate calls and matching deallocate calls (the witness).
C15_SafeYetNoRun ==
    (/\ op.name = "allocate" /\ ~oob /\ memIndex = -1
     /\ Cardinality(FreeUnits(prevMem)) >= op.size)
    => /\ isSafe(prevMem, op.size)
       /\ ~\E s \in DOMAIN prevMem : FitsAt(prevMem, s, op.size)
       /\ memory = prevMem

\* allocate(2) returned -1 on a pool whose two free units are apart, held
\* by allocations the caller made and did not release
C15_Witness ==
    /\ pc = "mm" /\ op.name = "allocate" /\ op.size = 2
    /\ memIndex = -1 /\ ~oob
    /\ isSafe(memory, 2)
    /\ FreeUnits(memory) # {}
    /\ {i \in DOMAIN memory : memory[i] = 1} = UNION {UnitsOf(h) : h \in held}

\* C16: a successful allocate(size) returns the lowest offset at which size
\* free units start, and exactly those units turn from free to occupied.
C16_FirstRun ==
    (op.name = "allocate" /\ memIndex # -1) =>
        /\ ~oob
        /\ memIndex \in 0..(memSize(prevMem) - op.size)
        /\ FitsAt(prevMem, memIndex, op.size)
        /\ \A s \in 0..(memIndex - 1) : ~FitsAt(prevMem, s, op.size)
        /\ \A i \in DOMAIN memory :
              memory[i] = IF memIndex <= i /\ i < memIndex + op.size
                          THEN 1 ELSE prevMem[i]

\* A run was taken behind an occupied unit although a later run fits too
C16_Witness ==
    /\ op.name = "allocate" /\ memIndex = 1 /\ op.size = 1
    /\ prevMem[0] = 1 /\ prevMem[1] = 0
    /\ \E s \in DOMAIN prevMem : s > 2 /\ FitsAt(prevMem, s, 1)

---------------------------------------------------------------------------
(* Further claims about simulate, under Spec                               *)

AllFree(m) == \A i \in DOMAIN m : m[i] = 0

\* C17: the airspace is entirely free, with no allocation held, at the loop
\* head and up to the calls of isSafe and allocate; at most one plane holds
\* an allocation, at offset 0; and an allocate call of the engine never
\* returns -1, so the 'no space' deferral is never taken.
C17_AirspaceFreeAtCalls ==
    [][/\ pc' \in {"loop", "weather", "admit", "next", "safe", "alloc",
                   "chart", "done"} => (AllFree(memory') /\ held' = {})
       /\ pc' \in {"land", "release"} =>
            /\ held' = {[start |-> 0, size |-> current'.size]}
            /\ memIndex' = 0
       /\ (pc = "alloc" /\ pc' # pc) =>
            /\ AllFree(memory) /\ isSafe(memory, current.size)
            /\ pc' = "land" /\ memIndex' = 0]_vars

\* A second plane is about to be allocated after the first was released
C17_Witness ==
    /\ pc = "alloc" /\ Len(released) = 1 /\ AllFree(memory)
    /\ current.size = Capacity /\ memIndex = 0

\* The planes served in the first k allocations
ServedUpTo(k) == {served[j].plane : j \in 1..k}

\* C18: no non-emergency plane begins service at a time t >= the
\* arrivalTime of an emergency plane not yet served; and when an emergency
\* plane has arrived by the end of a service without having been served, the
\* next service is an emergency plane's and begins when that service ends.
C18_EmergencyPrecedence ==
    \A k \in 1..Len(served) :
        LET waiting(t, n) ==
                {i \in 1..Len(input) :
                    /\ input[i].emergency /\ input[i].arrivalTime <= t
                    /\ input[i] \notin ServedUpTo(n)}
            end == served[k].start + served[k].plane.landingTime
        IN  /\ ~served[k].plane.emergency =>
                  waiting(served[k].start, k - 1) = {}
            /\ (k < Len(served) /\ waiting(end, k) # {}) =>
                  /\ served[k + 1].plane.emergency
                  /\ served[k + 1].start = end

=============================================================================
